---- MODULE Spec2Model ----
(***************************************************************************)
(* The authenticated media streaming proxy, GET|HEAD /stream-call-recording *)
(* (src/src/routes/streamCallRecording.ts), as a state machine.  One step  *)
(* of the machine is one run of the handler between two awaits: JavaScript *)
(* runs the code between awaits without interleaving, so an outbound call  *)
(* is "in flight" exactly in the states where the handler awaits it.       *)
(***************************************************************************)
EXTENDS Integers, Sequences, FiniteSets, TLC

\* Clock values Date.now() can return; exp values range over -1 .. MaxTime + 1.
MaxTime == 1
\* Longest upstream body, in chunks, the streaming responder is followed over.
MaxChunks == 2
\* Requests followed together over the record-store session caches.
MaxRequests == 2
\* Steps of the clock the session caches are followed over.
MaxTicks == 2

VARIABLES
    env,         \* process.env, fixed for the life of the process
    req,         \* the inbound request: token (its "."-separated parts), method, Range
    now,         \* the value Date.now() returned at line 116
    pc,          \* the await the handler is suspended at, or "idle" / "streaming" / "done"
    res,         \* the client response as written so far
    calls,       \* every outbound fetch issued so far, in order
    inflight,    \* index in calls of the fetch being awaited, 0 when none
    r,           \* the handler's local r / listRes / callRes: the last upstream response
    call,        \* the handler's local call (the record-store entity), NoRecord when null
    candidates,  \* the handler's local candidates
    idx,         \* position of the for-loop over candidates (1-based), 0 before it
    trail,       \* which of the validation steps of lines 99-125 this request ran
    aborted,     \* whether the AbortController of app.ts:123 has been aborted
    settled,     \* how the last awaited fetch settled: response, error or aborted
    upstream,    \* state of the winning response's body stream
    denied       \* the status r held at line 237 when the retry on candidates[idx]
                 \* was decided (line 238 overwrites r), 0 when no retry was made

vars == <<env, req, now, pc, res, calls, inflight, r, call, candidates, idx,
          trail, aborted, settled, upstream, denied>>

\* The record-store sessions of the process, which outlive a request
\* (twilioCallStatus.ts, twilioRecordingStatus.ts, base44LoginAndGetCall).
VARIABLES
    hookEnv,     \* process.env as these handlers read it
    clock,       \* what Date.now() returns
    hooks,       \* the requests that need the record store, in order of arrival
    lastLoginAt, \* the module variable lastLoginAt of each webhook module
    lastGood     \* per route, the latest `now` of a login that succeeded, 0 when none

hookVars == <<hookEnv, clock, hooks, lastLoginAt, lastGood>>

\* The session caches as the modules initialise them, before any request.
HooksAtRest ==
    /\ clock = 0
    /\ hooks = <<>>
    /\ lastLoginAt = [m \in {"callStatus", "recordingStatus"} |-> 0]
    /\ lastGood = [m \in {"callStatus", "recordingStatus", "stream"} |-> 0]

----------------------------------------------------------------------------
(* Values *)

Absent == "absent"     \* an undefined JSON field / an unset header

\* The value of the payload's exp field: missing, a JSON number, or a JSON string.
ExpValues ==
    {[t |-> "absent", n |-> 0, s |-> ""]}
    \cup {[t |-> "num", n |-> n, s |-> ""] : n \in -1 .. MaxTime + 1}
    \cup {[t |-> "str", n |-> 0, s |-> s] : s \in {"", "0", "never"}}

\* Decoded payloads: JSON objects with the four fields line 114 reads, and the
\* JSON value null (which also parses).
ObjectPayloads ==
    [json : {"object"},
     callId : {Absent, "C1"},
     recordingSid : {Absent, "RX1"},
     twilioCallSid : {Absent, "CA1"},
     exp : ExpValues]

NullPayload ==
    [json |-> "null", callId |-> Absent, recordingSid |-> Absent,
     twilioCallSid |-> Absent,
     exp |-> [t |-> "absent", n |-> 0, s |-> ""]]

GarbagePayload ==
    [json |-> "garbage", callId |-> Absent, recordingSid |-> Absent,
     twilioCallSid |-> Absent,
     exp |-> [t |-> "absent", n |-> 0, s |-> ""]]

\* A payload segment is the base64url text of some JSON text; two different
\* texts (enc 1, enc 2: say, different key order) can decode to the same value.
PayloadSegments ==
    [body : ObjectPayloads, enc : {1}]
    \cup [body : {p \in ObjectPayloads : p.recordingSid # Absent /\ p.callId = Absent
                                         /\ p.twilioCallSid = Absent /\ p.exp.t = "num"},
          enc : {2}]
    \cup [body : {NullPayload, GarbagePayload}, enc : {1}]

Secrets == {"s1", "tok"}

\* process.env after the .trim() of lines 119-120, 130-133 and 36-38: "" is unset.
\* apiKey stands for TWILIO_API_KEY_SID && TWILIO_API_KEY_SECRET (line 141),
\* base44 for the three BASE44_* variables of line 39.
Envs ==
    [secret : {"", "s1"},
     authToken : {"", "tok"},
     accountSid : {"", "AC1"},
     apiKey : {"", "SK1:ks"},
     base44 : BOOLEAN]

----------------------------------------------------------------------------
(* Capability token codec: lines 8-23 and 99-125 *)

\* crypto.createHmac("sha256", secret).update(payloadB64).digest("base64"), line 20:
\* an ideal MAC, a different text for each (secret, message), written in the
\* standard base64 alphabet with its padding.
HmacBase64(secret, payloadB64) == <<secret, payloadB64, "+", "/", "=">>

UrlChar(c) == IF c = "+" THEN "-" ELSE IF c = "/" THEN "_" ELSE c

RECURSIVE StripPadding(_)
StripPadding(s) ==
    IF s # <<>> /\ s[Len(s)] = "=" THEN StripPadding(SubSeq(s, 1, Len(s) - 1)) ELSE s

\* line 21: mac.replace(/\+/g, "-").replace(/\//g, "_").replace(/=+$/g, "")
ToBase64Url(mac) ==
    LET t == StripPadding(mac) IN
    <<t[1], t[2]>> \o [i \in 1 .. Len(t) - 2 |-> UrlChar(t[i + 2])]

hmacVerifyNoConversion(secret, payloadB64, sigB64) ==
    HmacBase64(secret, payloadB64) = sigB64

hmacVerifyDecodedClaims(secret, payloadB64, sigB64) ==
    /\ Len(sigB64) = 4
    /\ sigB64[1] = secret
    /\ sigB64[2].body = payloadB64.body
    /\ sigB64 = ToBase64Url(HmacBase64(secret, sigB64[2]))

\* hmacVerify, lines 18-23
hmacVerify(secret, payloadB64, sigB64) ==
    ToBase64Url(HmacBase64(secret, payloadB64)) = sigB64

\* What an issuer holding `secret` appends to the payload segment: the same
\* MAC written directly in the URL-safe alphabet, unpadded.
Sign(secret, payloadB64) == <<secret, payloadB64, "-", "_">>

\* Signature segments tried with a payload segment: the right one for each
\* secret, the right one for another encoding of the same payload, and the MAC
\* left in the standard alphabet.
SigSegmentsFor(p) ==
    {Sign(s, q) : s \in Secrets, q \in {x \in PayloadSegments : x.body = p.body}}
    \cup {HmacBase64("s1", p)}

\* The token as token.split(".") sees it (line 102); <<>> is the absent or
\* empty token of line 100.
Tokens ==
    {<<>>}
    \cup {<<p>> : p \in {x \in PayloadSegments : x.body.exp.t = "absent"}}
    \cup UNION {{<<p, Sign(s, p)>> : s \in Secrets \cup {"other"}} :
                    p \in PayloadSegments}
    \cup UNION {{<<p, g>> : g \in SigSegmentsFor(p)} :
                    p \in {x \in PayloadSegments : x.body.recordingSid # Absent
                                                   /\ x.body.callId = Absent
                                                   /\ x.body.twilioCallSid = Absent}}
    \cup {<<p, Sign("s1", p), Sign("s1", p)>> :
              p \in {x \in PayloadSegments : x.body.exp.t = "absent"}}

\* !exp of line 116: undefined, 0 and "" are falsy
Falsy(exp) ==
    \/ exp.t = "absent"
    \/ exp.t = "num" /\ exp.n = 0
    \/ exp.t = "str" /\ exp.s = ""

\* Number(exp) of line 116: nan marks NaN
NumberOf(exp) ==
    CASE exp.t = "num" -> [nan |-> FALSE, n |-> exp.n]
      [] exp.t = "str" /\ exp.s \in {"", "0"} -> [nan |-> FALSE, n |-> 0]
      [] OTHER -> [nan |-> TRUE, n |-> 0]

\* !exp || Date.now() > Number(exp), line 116 (a comparison with NaN is false)
ExpiredAt(exp, t) ==
    Falsy(exp) \/ (~NumberOf(exp).nan /\ t > NumberOf(exp).n)

\* lines 118-120
SecretOf(e) == IF e.secret # "" THEN e.secret ELSE e.authToken

Verdict(status, error, steps) == [status |-> status, error |-> error, steps |-> steps]

ValidateSecretFirst(token, e, t) ==
    IF token = <<>> THEN Verdict(400, "Missing token", {})
    ELSE IF Len(token) # 2 THEN Verdict(400, "Invalid token", {"split"})
    ELSE IF token[1].body.json = "garbage"
        THEN Verdict(400, "Invalid token payload", {"split", "parse"})
    ELSE IF token[1].body.callId = Absent /\ token[1].body.recordingSid = Absent
        THEN Verdict(400, "Invalid token data", {"split", "parse", "ids"})
    ELSE IF SecretOf(e) = ""
        THEN Verdict(500, "Server not configured", {"split", "parse", "ids", "secret"})
    ELSE IF ExpiredAt(token[1].body.exp, t)
        THEN Verdict(401, "Token expired", {"split", "parse", "ids", "secret", "exp"})
    ELSE IF ~hmacVerify(SecretOf(e), token[1], token[2])
        THEN Verdict(401, "Invalid signature",
                     {"split", "parse", "ids", "exp", "secret", "hmac"})
    ELSE Verdict(0, "", {"split", "parse", "ids", "exp", "secret", "hmac"})

ValidateSignatureBeforeParse(token, e, t) ==
    IF token = <<>> THEN Verdict(400, "Missing token", {})
    ELSE IF Len(token) # 2 THEN Verdict(400, "Invalid token", {"split"})
    ELSE IF SecretOf(e) = ""
        THEN Verdict(500, "Server not configured", {"split", "secret"})
    ELSE IF ~hmacVerify(SecretOf(e), token[1], token[2])
        THEN Verdict(401, "Invalid signature", {"split", "secret", "hmac"})
    ELSE IF token[1].body.json = "garbage"
        THEN Verdict(400, "Invalid token payload", {"split", "secret", "hmac", "parse"})
    ELSE IF token[1].body.callId = Absent /\ token[1].body.recordingSid = Absent
        THEN Verdict(400, "Invalid token data",
                     {"split", "secret", "hmac", "parse", "ids"})
    ELSE IF ExpiredAt(token[1].body.exp, t)
        THEN Verdict(401, "Token expired",
                     {"split", "secret", "hmac", "parse", "ids", "exp"})
    ELSE Verdict(0, "", {"split", "parse", "ids", "exp", "secret", "hmac"})

\* lines 99-125: the checks in the order the handler makes them.  status 0
\* means every check passed; steps names the checks that ran ("secret" is the
\* read of the signing secret, "hmac" the call of hmacVerify).
Validate(token, e, t) ==
    IF token = <<>> THEN Verdict(400, "Missing token", {})
    ELSE IF Len(token) # 2 THEN Verdict(400, "Invalid token", {"split"})
    ELSE IF token[1].body.json = "garbage"
        THEN Verdict(400, "Invalid token payload", {"split", "parse"})
    ELSE IF token[1].body.callId = Absent /\ token[1].body.recordingSid = Absent
        THEN Verdict(400, "Invalid token data", {"split", "parse", "ids"})
    ELSE IF ExpiredAt(token[1].body.exp, t)
        THEN Verdict(401, "Token expired", {"split", "parse", "ids", "exp"})
    ELSE IF SecretOf(e) = ""
        THEN Verdict(500, "Server not configured", {"split", "parse", "ids", "exp", "secret"})
    ELSE IF ~hmacVerify(SecretOf(e), token[1], token[2])
        THEN Verdict(401, "Invalid signature",
                     {"split", "parse", "ids", "exp", "secret", "hmac"})
    ELSE Verdict(0, "", {"split", "parse", "ids", "exp", "secret", "hmac"})

----------------------------------------------------------------------------
(* Upstream credentials: lines 130-146 *)

NoAuth == <<>>

\* line 137-139: Basic base64(accountSid:authToken), or null
authBasic(e) == IF e.authToken # "" THEN <<"Basic", e.accountSid, e.authToken>> ELSE NoAuth

\* line 141-143: Basic base64(apiKeySid:apiKeySecret), or null
keyBasic(e) == IF e.apiKey # "" THEN <<"Basic", e.apiKey>> ELSE NoAuth

\* line 145: authBasic || keyBasic
primaryAuth(e) == IF authBasic(e) # NoAuth THEN authBasic(e) ELSE keyBasic(e)

CredentialsMissingAccountOnly(e) == e.accountSid = ""

\* lines 135 and 146: the two "Twilio credentials not configured" returns
CredentialsMissing(e) == e.accountSid = "" \/ primaryAuth(e) = NoAuth

----------------------------------------------------------------------------
(* Resource resolver: lines 149-219 *)

\* URLs are texts, kept as the pieces they are concatenated from.
RecordingUrl(acct, sid, ext) ==
    <<"https://api.twilio.com/2010-04-01/Accounts/", acct, "/Recordings/", sid, ext>>

ListUrl(acct, callSid) ==
    <<"https://api.twilio.com/2010-04-01/Accounts/", acct, "/Calls/", callSid,
      "/Recordings.json">>

LoginUrl == <<"https://base44.app/api/apps/", "app1", "/auth/login">>

CallUrl(callId) == <<"https://base44.app/api/apps/", "app1", "/entities/Call/", callId>>

DirectCandidatesMp3Only(acct, sid) == <<RecordingUrl(acct, sid, ".mp3")>>

\* lines 152-155, 168-171, 194-197, 211-214: the two format variants of a recording
DirectCandidates(acct, sid) ==
    <<RecordingUrl(acct, sid, ".mp3"), RecordingUrl(acct, sid, ".wav")>>

\* recording_url values of a Call entity: unset, ending in .mp3, ending in
\* .json, and the provider's own recording URL, which bears no extension.
RecordingUrlValues ==
    {<<>>,
     <<"https://cdn.example/foo", ".mp3">>,
     <<"https://cdn.example/foo", ".json">>,
     <<"https://api.twilio.com/2010-04-01/Accounts/", "AC1", "/Recordings/", "RE2">>}

\* The Call entity base44LoginAndGetCall returns (line 79), null when found is FALSE.
NoRecord ==
    [found |-> FALSE, twilio_recording_sid |-> Absent, recording_url |-> <<>>,
     twilio_call_sid |-> Absent]

CallRecords ==
    [found : {TRUE},
     twilio_recording_sid : {Absent, "RE2"},
     recording_url : RecordingUrlValues,
     twilio_call_sid : {Absent, "CA2"}]

UrlCandidatesAppendsAlways(u) ==
    IF u = <<>> THEN <<>>
    ELSE IF u[Len(u)] \in {".mp3", ".wav"} THEN <<u>>
    ELSE <<u \o <<".mp3">>, u \o <<".wav">>>>

\* lines 174-185: candidates from the record's direct media URL
UrlCandidates(u) ==
    IF u = <<>> THEN <<>>
    ELSE IF u[Len(u)] \in {".mp3", ".wav"} THEN <<u>>
    ELSE IF u[Len(u)] = ".json"
        THEN <<SubSeq(u, 1, Len(u) - 1) \o <<".mp3">>, SubSeq(u, 1, Len(u) - 1) \o <<".wav">>>>
    ELSE <<u \o <<".mp3">>, u \o <<".wav">>>>

\* lines 167-185: candidates from a found record, before any list query
RecordCandidates(acct, rec) ==
    (IF rec.twilio_recording_sid # Absent
        THEN DirectCandidates(acct, rec.twilio_recording_sid) ELSE <<>>)
    \o UrlCandidates(rec.recording_url)

----------------------------------------------------------------------------
(* Outbound calls and their answers *)

\* One fetch(): what is asked of whom.  signal is whether the options carry
\* the request's abort signal.
NoCall ==
    [kind |-> "none", url |-> <<>>, auth |-> NoAuth, range |-> Absent, signal |-> FALSE]

\* lines 47-51: fetch(login, {method, headers, body})
LoginCall ==
    [kind |-> "login", url |-> LoginUrl, auth |-> NoAuth, range |-> Absent,
     signal |-> FALSE]

\* lines 65-71: fetch(call entity, {method, headers})
GetCallCall(callId) ==
    [kind |-> "getCall", url |-> CallUrl(callId), auth |-> <<"Bearer", "session">>,
     range |-> Absent, signal |-> FALSE]

\* lines 189 and 206: fetch(listUrl, {headers: {Authorization: primaryAuth}})
ListCall(acct, callSid, auth) ==
    [kind |-> "list", url |-> ListUrl(acct, callSid), auth |-> auth, range |-> Absent,
     signal |-> FALSE]

fetchAudioDropsRange(urlStr, auth, range) ==
    [kind |-> "media", url |-> urlStr, auth |-> auth, range |-> Absent, signal |-> FALSE]

\* fetchAudio, lines 221-229: fetch(urlStr, {headers, redirect: "follow"})
fetchAudio(urlStr, auth, range) ==
    [kind |-> "media", url |-> urlStr, auth |-> auth, range |-> range, signal |-> FALSE]

\* Answers of the provider's media endpoint.  body is whether r.body is
\* non-null, chunks the number of chunks the body stream yields before it ends.
NoResponse ==
    [status |-> 0, body |-> FALSE, contentType |-> "", contentRange |-> "",
     contentLength |-> "", chunks |-> 0]

MediaResponses ==
    {[status |-> 200, body |-> TRUE, contentType |-> "audio/mpeg", contentRange |-> "",
      contentLength |-> "5000", chunks |-> 1],
     [status |-> 200, body |-> TRUE, contentType |-> "", contentRange |-> "",
      contentLength |-> "", chunks |-> 0],
     [status |-> 206, body |-> TRUE, contentType |-> "audio/mpeg",
      contentRange |-> "bytes 100-199/5000", contentLength |-> "100",
      chunks |-> MaxChunks],
     [status |-> 204, body |-> FALSE, contentType |-> "", contentRange |-> "",
      contentLength |-> "", chunks |-> 0],
     [status |-> 401, body |-> TRUE, contentType |-> "application/json",
      contentRange |-> "", contentLength |-> "20", chunks |-> 1],
     [status |-> 403, body |-> TRUE, contentType |-> "application/json",
      contentRange |-> "", contentLength |-> "20", chunks |-> 1],
     [status |-> 404, body |-> TRUE, contentType |-> "application/json",
      contentRange |-> "", contentLength |-> "20", chunks |-> 1]}

\* Response.ok
Ok(resp) == resp.status >= 200 /\ resp.status <= 299

----------------------------------------------------------------------------
(* The client response *)

NoRes ==
    [status |-> 0, error |-> "", cors |-> FALSE, contentType |-> "",
     contentRange |-> "", contentLength |-> "", acceptRanges |-> "",
     cacheControl |-> "", disposition |-> "", body |-> <<>>, ended |-> FALSE,
     from |-> 0, json |-> FALSE, piped |-> 0]

\* applyCors(res) of line 97, then res.status(status).json({error}); json is
\* whether the JSON document is written as the response body
JsonError(status, error) ==
    [NoRes EXCEPT !.status = status, !.error = error, !.cors = TRUE,
                  !.contentType = "application/json", !.ended = TRUE, !.json = TRUE]

\* What Express makes of the reply for the route's method: handle is registered
\* for GET and for HEAD (lines 87-93), and for a HEAD request res.json sets the
\* status and headers and ends the response without writing the document.
Send(reply, isHead) == [reply EXCEPT !.json = @ /\ ~isHead]

MirrorDefaultsToMpeg(resp, finalUrl, n, isHead) ==
    [NoRes EXCEPT
        !.status = resp.status,
        !.cors = TRUE,
        !.contentType = IF resp.contentType # "" THEN resp.contentType ELSE "audio/mpeg",
        !.acceptRanges = "bytes",
        !.cacheControl = "no-store",
        !.disposition = "inline; filename=recording",
        !.contentRange = resp.contentRange,
        !.contentLength = resp.contentLength,
        !.ended = isHead,
        !.from = n]

\* lines 252-267: the winning response's status and headers copied to the
\* client; n is the winning fetch (its index in calls), and HEAD ends here.
Mirror(resp, finalUrl, n, isHead) ==
    [NoRes EXCEPT
        !.status = resp.status,
        !.cors = TRUE,
        !.contentType =
            IF resp.contentType # "" THEN resp.contentType
            ELSE IF finalUrl[Len(finalUrl)] = ".wav" THEN "audio/wav" ELSE "audio/mpeg",
        !.acceptRanges = "bytes",
        !.cacheControl = "no-store",
        !.disposition = "inline; filename=recording",
        !.contentRange = resp.contentRange,
        !.contentLength = resp.contentLength,
        !.ended = isHead,
        !.from = n]

----------------------------------------------------------------------------
(* The handler between two awaits.  A continuation says where the handler  *)
(* stops next: the await it suspends at (pc) with the fetch it has issued,  *)
(* or the response it returns.                                              *)

Reply(status, error, cands, i) ==
    [pc |-> "done", reply |-> JsonError(status, error), issue |-> NoCall,
     candidates |-> cands, idx |-> i, upstream |-> "none"]

Await(pcv, c, cands, i) ==
    [pc |-> pcv, reply |-> NoRes, issue |-> c, candidates |-> cands, idx |-> i,
     upstream |-> "none"]

\* lines 219-235: no candidate is 404, else the loop starts on the first one
Finish(cands, e, rq) ==
    IF cands = <<>> THEN Reply(404, "Recording not available", cands, 0)
    ELSE Await("fetchPrimary", fetchAudio(cands[1], primaryAuth(e), rq.range), cands, 1)

TokenFallbackAlways(cands, claims, e, rq) ==
    IF claims.twilioCallSid # Absent
        THEN Await("listToken", ListCall(e.accountSid, claims.twilioCallSid, primaryAuth(e)),
                   cands, 0)
        ELSE Finish(cands, e, rq)

\* lines 203-217: list query keyed by the token's own call SID
TokenFallback(cands, claims, e, rq) ==
    IF cands = <<>> /\ claims.twilioCallSid # Absent
        THEN Await("listToken", ListCall(e.accountSid, claims.twilioCallSid, primaryAuth(e)),
                   cands, 0)
        ELSE Finish(cands, e, rq)

AfterLookupFallsThrough(rec, claims, e, rq) ==
    LET cands == IF rec.found THEN RecordCandidates(e.accountSid, rec) ELSE <<>> IN
    IF cands = <<>> /\ rec.twilio_call_sid # Absent
        THEN Await("listRecord", ListCall(e.accountSid, rec.twilio_call_sid, primaryAuth(e)),
                   cands, 0)
        ELSE TokenFallback(cands, claims, e, rq)

AfterLookupRepliesAndGoesOn(rec, claims, e, rq) ==
    LET cands == IF rec.found THEN RecordCandidates(e.accountSid, rec) ELSE <<>>
        on == IF cands = <<>> /\ rec.twilio_call_sid # Absent
                 THEN Await("listRecord",
                            ListCall(e.accountSid, rec.twilio_call_sid, primaryAuth(e)),
                            cands, 0)
                 ELSE TokenFallback(cands, claims, e, rq) IN
    IF ~rec.found /\ on.reply.status = 0
        THEN [on EXCEPT !.reply = JsonError(404, "Call not found")]
        ELSE on

\* lines 165-200: what follows base44LoginAndGetCall; rec is NoRecord when it
\* returned null or threw (the catch of line 161 leaves call null)
AfterLookup(rec, claims, e, rq) ==
    IF ~rec.found THEN Reply(404, "Call not found", <<>>, 0)
    ELSE LET cands == RecordCandidates(e.accountSid, rec) IN
         IF cands = <<>> /\ rec.twilio_call_sid # Absent
            THEN Await("listRecord",
                       ListCall(e.accountSid, rec.twilio_call_sid, primaryAuth(e)), cands, 0)
            ELSE TokenFallback(cands, claims, e, rq)

ResolveLookupFirst(claims, e, rq) ==
    IF claims.callId # Absent
        THEN IF ~e.base44 THEN AfterLookup(NoRecord, claims, e, rq)
             ELSE Await("login", LoginCall, <<>>, 0)
    ELSE TokenFallback(DirectCandidates(e.accountSid, claims.recordingSid), claims, e, rq)

\* lines 149-160: the first strategy.  Without the BASE44_* variables
\* base44LoginAndGetCall throws at line 40 before any fetch.
Resolve(claims, e, rq) ==
    IF claims.recordingSid # Absent
        THEN TokenFallback(DirectCandidates(e.accountSid, claims.recordingSid), claims, e, rq)
    ELSE IF claims.callId # Absent
        THEN IF ~e.base44 THEN AfterLookup(NoRecord, claims, e, rq)
             ELSE Await("login", LoginCall, <<>>, 0)
    ELSE TokenFallback(<<>>, claims, e, rq)

EntryCredentialsFirst(rq, e, t) ==
    LET v == Validate(rq.token, e, t) IN
    IF CredentialsMissing(e)
        THEN Reply(500, "Twilio credentials not configured", <<>>, 0)
    ELSE IF v.status # 0 THEN Reply(v.status, v.error, <<>>, 0)
    ELSE Resolve(rq.token[1].body, e, rq)

\* lines 95-160: the handler from its entry to its first await or return
Entry(rq, e, t) ==
    LET v == Validate(rq.token, e, t) IN
    IF v.status # 0 THEN Reply(v.status, v.error, <<>>, 0)
    ELSE IF CredentialsMissing(e)
        THEN Reply(500, "Twilio credentials not configured", <<>>, 0)
    ELSE Resolve(rq.token[1].body, e, rq)

ShouldRetryOnAnyFailure(resp, e) == ~Ok(resp) /\ keyBasic(e) # NoAuth

ShouldRetryWithoutSecondary(resp, e) == resp.status \in {401, 403}

\* line 237: (r.status === 401 || r.status === 403) && keyBasic && authBasic
ShouldRetry(resp, e) ==
    resp.status \in {401, 403} /\ keyBasic(e) # NoAuth /\ authBasic(e) # NoAuth

\* line 240: r.ok && r.body
IsWinner(resp) == Ok(resp) /\ resp.body

\* lines 87-93: the third argument of handle.  The GET route is registered
\* before the HEAD route, and Express dispatches a HEAD request to the first
\* route of the path that handles GET when that route has no HEAD handler of
\* its own; so handle is called by the GET route, without the argument, for
\* both methods, and the HEAD route (handle(req, res, true)) is never reached.
HandleIsHead(rq) == FALSE

WonKeepsLooking(resp, cands, i, n, e, rq) ==
    IF i < Len(cands)
        THEN Await("fetchPrimary", fetchAudio(cands[i + 1], primaryAuth(e), rq.range),
                   cands, i + 1)
        ELSE [pc |-> IF HandleIsHead(rq) THEN "done" ELSE "streaming",
              reply |-> Mirror(resp, cands[i], n, HandleIsHead(rq)), issue |-> NoCall,
              candidates |-> cands, idx |-> i,
              upstream |-> IF HandleIsHead(rq) THEN "unread" ELSE "flowing"]

\* lines 241-243 and 251-277: the winner ends the loop (break); its status and
\* headers go to the client, and unless isHead was passed the body is piped
Won(resp, cands, i, n, e, rq) ==
    [pc |-> IF HandleIsHead(rq) THEN "done" ELSE "streaming",
     reply |-> Mirror(resp, cands[i], n, HandleIsHead(rq)), issue |-> NoCall,
     candidates |-> cands, idx |-> i,
     upstream |-> IF HandleIsHead(rq) THEN "unread" ELSE "flowing"]

\* lines 240-249: after the last attempt on candidate i
AfterCandidate(resp, cands, i, n, e, rq) ==
    IF IsWinner(resp) THEN Won(resp, cands, i, n, e, rq)
    ELSE IF i < Len(cands)
        THEN Await("fetchPrimary", fetchAudio(cands[i + 1], primaryAuth(e), rq.range),
                   cands, i + 1)
    ELSE Reply(502, "Failed to fetch recording audio", cands, i)

\* lines 235-239: after the primary attempt on candidate i
AfterPrimary(resp, cands, i, n, e, rq) ==
    IF ShouldRetry(resp, e)
        THEN Await("fetchSecondary", fetchAudio(cands[i], keyBasic(e), rq.range), cands, i)
        ELSE AfterCandidate(resp, cands, i, n, e, rq)

CaughtEscapes(cands, i) ==
    [pc |-> "done", reply |-> NoRes, issue |-> NoCall, candidates |-> cands, idx |-> i,
     upstream |-> "none"]

\* lines 278-282: the catch of handle
Caught(cands, i) == Reply(500, "fetch failed", cands, i)

----------------------------------------------------------------------------
(* State machine *)

Ranges == {Absent, "bytes=100-199"}

\* isHead is whether the request's method is HEAD (GET otherwise).
Requests == [token : Tokens, isHead : BOOLEAN, range : Ranges]

NoRequest == [token |-> <<>>, isHead |-> FALSE, range |-> Absent]

\* The process with its environment set and no request received yet.  handle
\* keeps nothing from one request to the next, so one request is followed.
Init ==
    /\ env \in Envs
    /\ req = NoRequest
    /\ now = 0
    /\ pc = "idle"
    /\ res = NoRes
    /\ calls = <<>>
    /\ inflight = 0
    /\ r = NoResponse
    /\ call = NoRecord
    /\ candidates = <<>>
    /\ idx = 0
    /\ trail = {}
    /\ aborted = FALSE
    /\ settled = "none"
    /\ upstream = "none"
    /\ denied = 0
    /\ hookEnv = [creds |-> TRUE, skipSig |-> FALSE]
    /\ HooksAtRest

RunSpeculative(k, isHead) ==
    LET both == k.issue.kind = "media" /\ k.idx < Len(k.candidates)
        ahead == [k.issue EXCEPT !.url = k.candidates[k.idx + 1]] IN
    /\ pc' = k.pc
    /\ res' = IF k.reply.status # 0 THEN Send(k.reply, isHead) ELSE res
    /\ calls' = IF k.issue.kind = "none" THEN calls
                ELSE IF both THEN calls \o <<ahead, k.issue>>
                ELSE Append(calls, k.issue)
    /\ inflight' = IF k.issue.kind # "none" THEN Len(calls') ELSE 0
    /\ candidates' = k.candidates
    /\ idx' = k.idx
    /\ upstream' = k.upstream

\* The handler of a GET or HEAD (isHead: the method) request runs on to
\* continuation k.
Run(k, isHead) ==
    /\ pc' = k.pc
    /\ res' = IF k.reply.status # 0 THEN Send(k.reply, isHead) ELSE res
    /\ calls' = IF k.issue.kind # "none" THEN Append(calls, k.issue) ELSE calls
    /\ inflight' = IF k.issue.kind # "none" THEN Len(calls) + 1 ELSE 0
    /\ candidates' = k.candidates
    /\ idx' = k.idx
    /\ upstream' = k.upstream

\* The handler of the request being served runs on to continuation k.
Goto(k) == Run(k, req.isHead)

\* How the awaited fetch can settle: with a response, with a network error
\* (the promise rejects), or, when its options carry the abort signal and the
\* signal has fired, only with an AbortError.
Settlements ==
    IF calls[inflight].signal /\ aborted THEN {"aborted"} ELSE {"response", "error"}

\* streamCallRecordingRouter.get / .head, lines 87-93, and handle up to its
\* first await
Receive ==
    /\ pc = "idle"
    /\ \E rq \in Requests, t \in 1 .. MaxTime :
        /\ req' = rq
        /\ now' = t
        /\ trail' = Validate(rq.token, env, t).steps
        /\ Run(Entry(rq, env, t), rq.isHead)
    /\ UNCHANGED <<env, r, call, aborted, settled, denied>>
    /\ UNCHANGED hookVars

LoginSettlesThrowsOut ==
    /\ pc = "login"
    /\ \E how \in Settlements, answer \in {"token", "noToken", "rejected"} :
        /\ settled' = how
        /\ how # "response" => answer = "rejected"
        /\ IF how = "response" /\ answer = "token"
              THEN Goto(Await("getCall", GetCallCall(req.token[1].body.callId), <<>>, 0))
              ELSE Goto(Caught(<<>>, 0))
        /\ call' = NoRecord
    /\ UNCHANGED <<env, req, now, r, trail, aborted, denied>>
    /\ UNCHANGED hookVars

\* lines 47-71: the login fetch settles; only a 2xx answer with a token in it
\* leads to the entity fetch, everything else throws
LoginSettles ==
    /\ pc = "login"
    /\ \E how \in Settlements, answer \in {"token", "noToken", "rejected"} :
        /\ settled' = how
        /\ how # "response" => answer = "rejected"
        /\ IF how = "response" /\ answer = "token"
              THEN Goto(Await("getCall", GetCallCall(req.token[1].body.callId), <<>>, 0))
              ELSE Goto(AfterLookup(NoRecord, req.token[1].body, env, req))
        /\ call' = NoRecord
    /\ UNCHANGED <<env, req, now, r, trail, aborted, denied>>
    /\ UNCHANGED hookVars

\* lines 73-79 and 159-200: the entity fetch settles: 404 and an unparseable
\* body give null, another error status throws, a 2xx answer gives the entity
GetCallSettles ==
    /\ pc = "getCall"
    /\ \E how \in Settlements, rec \in CallRecords \cup {NoRecord} :
        /\ settled' = how
        /\ how # "response" => rec = NoRecord
        /\ call' = rec
        /\ Goto(AfterLookup(rec, req.token[1].body, env, req))
    /\ UNCHANGED <<env, req, now, r, trail, aborted, denied>>
    /\ UNCHANGED hookVars

\* What the list query added: nothing for a non-2xx answer, an unparseable
\* body or an empty list, the first recording's two variants otherwise
ListAnswers == {"notOk", "unparseable", "empty", "RE9"}

\* lines 190-199 and 207-216
ListCandidates(acct, answer) ==
    IF answer \in {"notOk", "unparseable", "empty"} THEN <<>>
    ELSE DirectCandidates(acct, answer)

\* lines 189-217: a list query settles
ListSettles ==
    /\ pc \in {"listRecord", "listToken"}
    /\ \E how \in Settlements, answer \in ListAnswers :
        /\ settled' = how
        /\ how # "response" => answer = "notOk"
        /\ IF how # "response" THEN Goto(Caught(candidates, idx))
           ELSE IF pc = "listRecord"
              THEN Goto(TokenFallback(candidates \o ListCandidates(env.accountSid, answer),
                                      req.token[1].body, env, req))
              ELSE Goto(Finish(candidates \o ListCandidates(env.accountSid, answer),
                               env, req))
    /\ UNCHANGED <<env, req, now, r, call, trail, aborted, denied>>
    /\ UNCHANGED hookVars

\* lines 235-249: the primary-credential attempt on candidates[idx] settles
PrimarySettles ==
    /\ pc = "fetchPrimary"
    /\ \E how \in Settlements, resp \in MediaResponses :
        /\ settled' = how
        /\ how # "response" => resp.status = 404
        /\ IF how # "response"
              THEN r' = r /\ Goto(Caught(candidates, idx))
              ELSE r' = resp /\ Goto(AfterPrimary(resp, candidates, idx, inflight, env, req))
        /\ denied' = IF how = "response" /\ ShouldRetry(resp, env) THEN resp.status ELSE 0
    /\ UNCHANGED <<env, req, now, call, trail, aborted>>
    /\ UNCHANGED hookVars

SecondarySettlesTestsPrimary ==
    /\ pc = "fetchSecondary"
    /\ \E how \in Settlements, resp \in MediaResponses :
        /\ settled' = how
        /\ how # "response" => resp.status = 404
        /\ IF how # "response"
              THEN r' = r /\ Goto(Caught(candidates, idx))
              ELSE r' = resp /\ Goto(AfterCandidate(r, candidates, idx, inflight, env, req))
        /\ denied' = IF pc' = "fetchPrimary" THEN 0 ELSE denied
    /\ UNCHANGED <<env, req, now, call, trail, aborted>>
    /\ UNCHANGED hookVars

\* lines 238-249: the secondary-credential attempt on candidates[idx] settles
SecondarySettles ==
    /\ pc = "fetchSecondary"
    /\ \E how \in Settlements, resp \in MediaResponses :
        /\ settled' = how
        /\ how # "response" => resp.status = 404
        /\ IF how # "response"
              THEN r' = r /\ Goto(Caught(candidates, idx))
              ELSE r' = resp /\ Goto(AfterCandidate(resp, candidates, idx, inflight, env, req))
        /\ denied' = IF pc' = "fetchPrimary" THEN 0 ELSE denied
    /\ UNCHANGED <<env, req, now, call, trail, aborted>>
    /\ UNCHANGED hookVars

\* line 277: nodeStream.pipe(res) takes the next chunk of the body and writes
\* it to res; the response of a HEAD request has no body, and Node ignores the
\* write
StreamChunk ==
    /\ pc = "streaming"
    /\ res.piped < r.chunks
    /\ res' = [res EXCEPT
                  !.piped = @ + 1,
                  !.body = IF req.isHead THEN @
                           ELSE Append(@, [from |-> res.from, n |-> res.piped + 1])]
    /\ UNCHANGED <<env, req, now, pc, calls, inflight, r, call, candidates, idx, trail,
                   aborted, settled, upstream, denied>>
    /\ UNCHANGED hookVars

StreamEndsEarly ==
    /\ pc = "streaming"
    /\ pc' = "done"
    /\ upstream' = "ended"
    /\ res' = [res EXCEPT !.ended = TRUE]
    /\ UNCHANGED <<env, req, now, calls, inflight, r, call, candidates, idx, trail, aborted,
                   settled, denied>>
    /\ UNCHANGED hookVars

\* line 277: the body ends, after its last chunk, and pipe ends the client
\* response
StreamEnd ==
    /\ pc = "streaming"
    /\ res.piped = r.chunks
    /\ pc' = "done"
    /\ upstream' = "ended"
    /\ res' = [res EXCEPT !.ended = TRUE]
    /\ UNCHANGED <<env, req, now, calls, inflight, r, call, candidates, idx, trail, aborted,
                   settled, denied>>
    /\ UNCHANGED hookVars

StreamErrorRepliesJson ==
    /\ pc = "streaming"
    /\ pc' = "done"
    /\ upstream' = "errored"
    /\ res' = [JsonError(500, "stream failed") EXCEPT !.body = res.body, !.from = res.from]
    /\ UNCHANGED <<env, req, now, calls, inflight, r, call, candidates, idx, trail, aborted,
                   settled, denied>>
    /\ UNCHANGED hookVars

\* lines 274-276: the body stream fails and the error handler ends the response
StreamError ==
    /\ pc = "streaming"
    /\ pc' = "done"
    /\ upstream' = "errored"
    /\ res' = [res EXCEPT !.ended = TRUE]
    /\ UNCHANGED <<env, req, now, calls, inflight, r, call, candidates, idx, trail, aborted,
                   settled, denied>>
    /\ UNCHANGED hookVars

\* app.ts line 125: the client connection closes and the controller aborts.
\* Nothing in handle reads req.abortSignal; a pipe whose destination closed
\* stops reading its source and leaves it open.
ClientClose ==
    /\ pc # "idle"
    /\ ~aborted
    /\ aborted' = TRUE
    /\ pc' = IF pc = "streaming" THEN "done" ELSE pc
    /\ upstream' = IF pc = "streaming" THEN "unpiped" ELSE upstream
    /\ UNCHANGED <<env, req, now, res, calls, inflight, r, call, candidates, idx, trail,
                   settled, denied>>
    /\ UNCHANGED hookVars

Next ==
    \/ Receive
    \/ LoginSettles
    \/ GetCallSettles
    \/ ListSettles
    \/ PrimarySettles
    \/ SecondarySettles
    \/ StreamChunk
    \/ StreamEnd
    \/ StreamError
    \/ ClientClose

Spec == Init /\ [][Next]_vars

----------------------------------------------------------------------------
(* Properties of the token codec *)

Received == pc # "idle"

Claims == req.token[1].body

TwoSegments == Received /\ Len(req.token) = 2

CarriesIdentifier == Claims.callId # Absent \/ Claims.recordingSid # Absent

\* The token's validity as the data model states it: well-formed JSON, an
\* identifier, exp present with now <= exp, and the signature segment equal to
\* the MAC of the payload segment under the server's secret.
TokenValid ==
    /\ TwoSegments
    /\ Claims.json # "garbage"
    /\ CarriesIdentifier
    /\ Claims.exp.t = "num" /\ now <= Claims.exp.n
    /\ req.token[2] = Sign(SecretOf(env), req.token[1])

\* C1: an outbound call (record-store login or fetch, provider list query,
\* media fetch) is issued only for a token that passed all four validity
\* conditions, whatever value exp carries.
C1_OutboundOnlyForValidToken == calls # <<>> => TokenValid

\* exp < now, for the exp values that compare with a number as a number
ExpBefore(exp, t) ==
    \/ exp.t = "num" /\ exp.n < t
    \/ exp.t = "str" /\ exp.s \in {"", "0"} /\ 0 < t

\* C3: a two-segment token whose payload parses, carries an identifier and has
\* exp < now is answered 401 Token expired, with a valid signature or not and
\* with a signing secret configured or not, and no outbound call is issued.
C3_ExpiredIs401 ==
    (TwoSegments /\ Claims.json = "object" /\ CarriesIdentifier
        /\ ExpBefore(Claims.exp, now))
    => (res.status = 401 /\ res.error = "Token expired" /\ calls = <<>>)

C3_Witness ==
    /\ TwoSegments /\ Claims.json = "object" /\ CarriesIdentifier
    /\ Claims.exp.t = "num" /\ Claims.exp.n # 0 /\ Claims.exp.n < now
    /\ SecretOf(env) = ""
    /\ req.token[2] # Sign("s1", req.token[1])
    /\ pc = "done" /\ res.status = 401

\* C4: where the handler verifies a signature, the segment MAC(secret, payload
\* segment) passes, and every other segment, the MAC of another encoding of the
\* same claims included, is answered 401 Invalid signature.
C4_SignatureVerification ==
    (Received /\ "hmac" \in trail)
    => IF req.token[2] = Sign(SecretOf(env), req.token[1])
          THEN res.error # "Invalid signature" /\ res.status # 401
          ELSE res.status = 401 /\ res.error = "Invalid signature" /\ calls = <<>>

C4_Witness ==
    /\ Received /\ "hmac" \in trail
    /\ req.token[2] # Sign(SecretOf(env), req.token[1])
    /\ req.token[2][1] = SecretOf(env)
    /\ Len(req.token[2]) = 4
    /\ req.token[2][2].body = req.token[1].body
    /\ res.status = 401 /\ res.error = "Invalid signature"

\* C5: an absent token, a token that is not exactly two segments, and a payload
\* segment that does not parse are answered 400 ("Missing token" when absent),
\* and neither the secret is read, nor a signature checked, nor a call issued.
C5_MalformedIs400 ==
    (Received /\ (Len(req.token) # 2 \/ Claims.json = "garbage"))
    => /\ res.status = 400
       /\ req.token = <<>> => res.error = "Missing token"
       /\ trail \cap {"secret", "hmac"} = {}
       /\ calls = <<>>

C5_Witness ==
    /\ TwoSegments /\ Claims.json = "garbage"
    /\ req.token[2] = Sign(SecretOf(env), req.token[1])
    /\ pc = "done" /\ res.status = 400 /\ res.error = "Invalid token payload"

----------------------------------------------------------------------------
(* Properties of cancellation, the resolver and the fetcher *)

\* The awaited fetch settled in this step.
Settles == inflight # 0 /\ inflight' # inflight

\* C2: when the client connection has closed while an outbound fetch of the
\* proxy is in flight, that fetch is aborted: it does not settle with a
\* response or a network error of its own.
C2_CloseAbortsInflightFetch ==
    [][(aborted /\ Settles) => settled' = "aborted"]_vars

Issued(kind) == \E i \in DOMAIN calls : calls[i].kind = kind

\* The record-store lookup has returned (or thrown) and left call null.
LookupFoundNothing ==
    /\ Received /\ Len(req.token) = 2
    /\ Claims.recordingSid = Absent /\ Claims.callId # Absent
    /\ Len(calls) >= 2 /\ calls[2].kind = "getCall" /\ inflight # 2
    /\ ~call.found

\* C6: for a token with a call identifier and no recording identifier, a
\* record-store lookup that finds no record ends the request with 404 Call not
\* found; no provider list query and no media fetch is issued, also when the
\* token carries a provider call identifier.
C6_NotFoundIsTerminal ==
    LookupFoundNothing
    => /\ pc = "done"
       /\ res.status = 404 /\ res.error = "Call not found"
       /\ ~Issued("list") /\ ~Issued("media")
       /\ Len(calls) = 2

C6_Witness ==
    /\ LookupFoundNothing
    /\ settled = "response"
    /\ Claims.twilioCallSid # Absent
    /\ res.status = 404

\* The handler got past validation and the credential checks.
Resolving ==
    /\ Received
    /\ Validate(req.token, env, now).status = 0
    /\ ~CredentialsMissing(env)

\* C7: for a valid token with a recording identifier (with or without a call
\* identifier) the candidates are exactly two URLs of that recording that
\* differ only in the extension, .mp3 then .wav, and every outbound call is a
\* media fetch, the first one issued on the first candidate.
C7_DirectRecordingCandidates ==
    (Resolving /\ Claims.recordingSid # Absent)
    => /\ Len(candidates) = 2
       /\ Len(candidates[1]) = 5 /\ Len(candidates[2]) = 5
       /\ SubSeq(candidates[1], 1, 4) = SubSeq(candidates[2], 1, 4)
       /\ candidates[1][4] = Claims.recordingSid
       /\ candidates[1][2] = env.accountSid
       /\ candidates[1][5] = ".mp3" /\ candidates[2][5] = ".wav"
       /\ calls # <<>> /\ calls[1].url = candidates[1]
       /\ \A i \in DOMAIN calls : calls[i].kind = "media"

C7_Witness ==
    /\ Resolving
    /\ Claims.recordingSid # Absent /\ Claims.callId # Absent
    /\ Claims.twilioCallSid # Absent
    /\ env.base44
    /\ Len(calls) >= 2 /\ calls[2].url = candidates[2]

SecondaryConfigured == env.authToken # "" /\ env.apiKey # ""

\* C8: on each candidate the fetcher makes one attempt with the primary
\* credential; a second attempt, on the same candidate with the secondary
\* credential, follows if and only if the first returned 401 or 403 and a
\* secondary credential is configured; after it the fetcher leaves the
\* candidate, so no candidate gets more than two attempts.
C8_Step ==
    /\ (pc = "fetchPrimary" /\ Settles)
       => /\ (pc' = "fetchSecondary")
             <=> (settled' = "response" /\ r'.status \in {401, 403} /\ SecondaryConfigured)
          /\ pc' = "fetchPrimary" => idx' = idx + 1
    /\ (pc = "fetchSecondary" /\ Settles)
       => /\ pc' # "fetchSecondary"
          /\ pc' = "fetchPrimary" => idx' = idx + 1
    /\ (pc' = "fetchSecondary" /\ pc # pc')
       => /\ pc = "fetchPrimary" /\ idx' = idx
          /\ calls' = Append(calls, calls'[inflight'])
          /\ calls'[inflight'].kind = "media"
          /\ calls'[inflight'].url = candidates[idx]
          /\ calls'[inflight'].auth = <<"Basic", env.apiKey>>
          /\ calls[inflight].auth = <<"Basic", env.accountSid, env.authToken>>
    /\ (pc' = "fetchPrimary" /\ inflight' # inflight)
       => /\ calls' = Append(calls, calls'[inflight'])
          /\ calls'[inflight'].kind = "media"
          /\ calls'[inflight'].url = candidates'[idx']
          /\ calls'[inflight'].auth =
                IF env.authToken # "" THEN <<"Basic", env.accountSid, env.authToken>>
                ELSE <<"Basic", env.apiKey>>
    /\ res'.status = 502 => idx' = Len(candidates')

C8_PrimaryThenSecondary == [][C8_Step]_vars

C8_Witness ==
    /\ pc = "fetchSecondary"
    /\ idx = 2
    /\ r.status = 403
    /\ Len(calls) = 3

\* C9, in one step: an attempt that returns 2xx with a body ends the loop, its
\* status goes to the client, and no fetch is issued; a new primary attempt is
\* on the next candidate of the list.
C9_Step ==
    /\ (pc \in {"fetchPrimary", "fetchSecondary"} /\ Settles
            /\ settled' = "response" /\ r'.status \in 200 .. 299 /\ r'.body)
       => /\ inflight' = 0 /\ calls' = calls
          /\ pc' \in {"streaming", "done"}
          /\ res'.from = inflight
          /\ res'.status = r'.status
          /\ candidates' = candidates /\ idx' = idx
    /\ (pc' = "fetchPrimary" /\ inflight' # inflight)
       => /\ idx' = idx + 1
          /\ calls'[inflight'].url = candidates'[idx']
          /\ pc \in {"fetchPrimary", "fetchSecondary"} => candidates' = candidates

\* C9, in every state: once a response is relayed to the client it is the
\* response of the last fetch issued, a media fetch on the current candidate,
\* and everything written to the client comes from it.
C9_Relayed ==
    res.from # 0
    => /\ inflight = 0
       /\ res.from = Len(calls)
       /\ calls[res.from].kind = "media"
       /\ calls[res.from].url = candidates[idx]
       /\ res.status = r.status /\ r.status \in 200 .. 299 /\ r.body
       /\ \A i \in DOMAIN res.body : res.body[i].from = res.from

\* C9: candidates are attempted in list order and the first attempt that
\* returns 2xx with a body wins: no media fetch follows it, and the response
\* streamed to the client is that attempt's.
C9_FirstSuccessWins == [][C9_Step /\ C9_Relayed']_vars

C9_Witness ==
    /\ res.from = 5 /\ idx = 2
    /\ calls[4].url = calls[5].url
    /\ Len(candidates) > 2
    /\ Len(res.body) = 2
    /\ res.status = 206

\* C10: with a non-empty candidate list and no attempt that produced a 2xx
\* response with a body, the client receives 502; and it receives 502 only
\* then, after every candidate was attempted.
C10_AllFailedIs502 ==
    /\ (pc = "done" /\ candidates # <<>> /\ res.from = 0) => res.status = 502
    /\ res.status = 502 => (candidates # <<>> /\ idx = Len(candidates) /\ res.from = 0)

----------------------------------------------------------------------------
(* Properties of the failure policy *)

LastCall == calls[Len(calls)]

\* The fetch that settles in this step failed: it was rejected, or, a media
\* fetch, it returned something other than 2xx with a body, or, a list query,
\* it added no candidate.
AttemptFails ==
    /\ Settles
    /\ calls[inflight].kind \in {"list", "media"}
    /\ \/ settled' # "response"
       \/ calls[inflight].kind = "media" /\ ~(r'.status \in 200 .. 299 /\ r'.body)
       \/ calls[inflight].kind = "list" /\ candidates' = <<>>

\* Another option is left after the fetch in flight: a later candidate, or,
\* after the list query keyed by the record, the one keyed by the token.
OptionsRemain ==
    \/ calls[inflight].kind = "media" /\ idx < Len(candidates)
    \/ pc = "listRecord" /\ Claims.twilioCallSid # Absent

\* C11: a failed media fetch attempt, secondary-credential retry or provider
\* list query, by an error status or by a network error, does not end the
\* request while another option is left: the handler goes on to it.
C11_FailureTriesNextOption ==
    [][(AttemptFails /\ OptionsRemain) => (pc' # "done" /\ inflight' # 0)]_vars

\* C12: after a provider list query that failed (network error, non-2xx
\* status, unparseable body) or listed nothing, with no candidate from any
\* other strategy, the client receives 404 Recording not available, not 500.
C12_ListFailureIs404 ==
    (pc = "done" /\ calls # <<>> /\ LastCall.kind = "list")
    => (res.status = 404 /\ res.error = "Recording not available")

\* C13: for a found record for which every strategy yielded no candidate the
\* client receives 404 Recording not available, which is not the 404 Call not
\* found of an absent record, and no media fetch is attempted.
C13_NoCandidatesIs404 ==
    /\ (pc = "done" /\ call.found /\ candidates = <<>>)
       => (res.status = 404 /\ res.error = "Recording not available"
           /\ ~Issued("media"))
    /\ (pc = "done" /\ res.error = "Call not found") => ~call.found


----------------------------------------------------------------------------
(* Properties of the record's sub-strategies *)

\* The record store returned a Call entity for the token's call identifier.
RecordFound == call.found

ListIssuedForRecord ==
    \E n \in 1 .. Len(calls) :
        calls[n].kind = "list"
        /\ calls[n].url = ListUrl(env.accountSid, call.twilio_call_sid)
        /\ call.twilio_call_sid # Absent

\* C14: for a found record the sub-strategies are exclusive and prioritized: a
\* record with a recording identifier gives exactly the two format variants of
\* that identifier; otherwise a record with a direct media URL gives only the
\* candidates of that URL; the record's list query is issued only when the
\* record carries neither.
C14_RecordStrategiesExclusive ==
    RecordFound =>
        /\ call.twilio_recording_sid # Absent =>
              candidates = <<RecordingUrl(env.accountSid, call.twilio_recording_sid, ".mp3"),
                             RecordingUrl(env.accountSid, call.twilio_recording_sid, ".wav")>>
        /\ (call.twilio_recording_sid = Absent /\ call.recording_url # <<>>) =>
              candidates = UrlCandidates(call.recording_url)
        /\ ListIssuedForRecord =>
              (call.twilio_recording_sid = Absent /\ call.recording_url = <<>>)

\* The token names a call and no recording, and the record found for it
\* carries a direct media URL and no recording identifier.
UrlOnlyRecord ==
    /\ RecordFound
    /\ Claims.recordingSid = Absent
    /\ call.twilio_recording_sid = Absent
    /\ call.recording_url # <<>>

\* C15: for a token with only a call identifier whose record carries only a
\* direct media URL, a URL ending in .json gives exactly the two candidates with
\* that suffix replaced by .mp3 and by .wav, in that order, and a URL with no
\* recognized suffix gives exactly the two candidates with .mp3 and .wav appended.
C15_UrlNormalisation ==
    UrlOnlyRecord =>
        /\ call.recording_url = <<"https://cdn.example/foo", ".json">> =>
              candidates = << <<"https://cdn.example/foo", ".mp3">>,
                              <<"https://cdn.example/foo", ".wav">> >>
        /\ call.recording_url =
              <<"https://api.twilio.com/2010-04-01/Accounts/", "AC1", "/Recordings/", "RE2">> =>
              candidates =
                  << <<"https://api.twilio.com/2010-04-01/Accounts/", "AC1", "/Recordings/",
                       "RE2", ".mp3">>,
                     <<"https://api.twilio.com/2010-04-01/Accounts/", "AC1", "/Recordings/",
                       "RE2", ".wav">> >>

\* Both candidates of a .json URL have been attempted, in order.
C15_Witness ==
    /\ UrlOnlyRecord
    /\ call.recording_url = <<"https://cdn.example/foo", ".json">>
    /\ Len(calls) = 4
    /\ calls[3].url = <<"https://cdn.example/foo", ".mp3">>
    /\ calls[4].url = <<"https://cdn.example/foo", ".wav">>


----------------------------------------------------------------------------
(* Properties of the responder *)

\* The secondary-credential attempt in flight follows a primary attempt that
\* was answered 403, and is itself answered 200 with a body.
C16_Case ==
    /\ pc = "fetchSecondary"
    /\ authBasic(env) # NoAuth /\ keyBasic(env) # NoAuth
    /\ r.status = 403
    /\ Settles
    /\ settled' = "response"
    /\ r'.status = 200 /\ r'.body

\* What the client is sent comes from the secondary attempt alone.
C16_Step ==
    C16_Case =>
        /\ calls[inflight].auth = keyBasic(env)
        /\ res'.status = 200
        /\ res'.error = ""
        /\ res'.from = inflight
        /\ res'.contentLength = r'.contentLength
        /\ res'.contentType \in {r'.contentType, "audio/mpeg", "audio/wav"}
        /\ res'.contentType # r.contentType

\* Every body chunk the client has received was read from the response whose
\* status and headers it was sent.
C16_Body == \A k \in 1 .. Len(res.body) : res.body[k].from = res.from

\* C16: with both credentials configured, when the primary attempt on a
\* candidate is answered 403 and the secondary attempt 200 with a body, the
\* client receives the secondary attempt's status and body and nothing of the
\* primary attempt's failure.
C16_SecondaryAnswerOnly == [][C16_Step /\ C16_Body']_vars

\* The client has received a chunk of the secondary attempt's body after the
\* primary attempt on the same candidate was answered 403.
C16_Witness ==
    /\ denied = 403
    /\ res.from = 2
    /\ calls[1].url = calls[2].url
    /\ calls[1].auth = authBasic(env)
    /\ calls[2].auth = keyBasic(env)
    /\ res.status = 200
    /\ Len(res.body) > 0


\* C17: the inbound Range header is forwarded unchanged on every media fetch
\* attempt, for every candidate and with both credentials, and the winning
\* upstream response's status, Content-Range and Content-Length are copied
\* unchanged to the client response.
C17_RangePassThrough ==
    /\ \A n \in 1 .. Len(calls) : calls[n].kind = "media" => calls[n].range = req.range
    /\ res.from # 0 =>
          /\ res.status = r.status
          /\ res.contentRange = r.contentRange
          /\ res.contentLength = r.contentLength

\* A ranged request is answered 206 with the upstream Content-Range by the
\* second candidate, after attempts with both credentials carried the Range.
C17_Witness ==
    /\ req.range = "bytes=100-199"
    /\ res.from = 3
    /\ \A n \in 1 .. 3 : calls[n].kind = "media" /\ calls[n].range = "bytes=100-199"
    /\ calls[1].url = calls[2].url /\ calls[1].auth # calls[2].auth
    /\ calls[3].url # calls[1].url
    /\ res.status = 206
    /\ res.contentRange = "bytes 100-199/5000"
    /\ res.contentLength = "100"


\* C18: for every HEAD request the client response carries no body byte,
\* neither of a recording nor of an error document, and the handler never
\* opens or reads the upstream body stream, on the success path as on the
\* error paths.
C18_HeadHasNoBody ==
    (Received /\ req.isHead) =>
        /\ res.body = <<>>
        /\ ~res.json
        /\ upstream \in {"none", "unread"}
        /\ pc # "streaming"

\* What reaches the client of a HEAD request: no body byte.
HeadClientBodyEmpty == (Received /\ req.isHead) => (res.body = <<>> /\ ~res.json)


----------------------------------------------------------------------------
(* Properties of the request boundary *)

\* C19: every error raised at a step of the handler is caught in the handler
\* and answered with a JSON error document, 500 when it is an unexpected
\* exception; no request is left without a response, and every response,
\* success or error, carries the CORS headers.
C19_ErrorsBecomeJson ==
    /\ res.status # 0 => res.cors
    /\ pc = "done" => res.status # 0
    /\ (pc = "done" /\ res.from = 0) =>
          /\ res.status \in {400, 401, 404, 500, 502}
          /\ res.error # ""
          /\ res.contentType = "application/json"
          /\ res.json = ~req.isHead
    /\ (pc = "done" /\ calls # <<>> /\ LastCall.kind \in {"list", "media"}
        /\ settled = "error") =>
          res.status = 500

\* The fetch of the second candidate rejected and the client of a GET was
\* answered 500 with a JSON error document and the CORS headers.
C19_Witness ==
    /\ pc = "done"
    /\ ~req.isHead
    /\ settled = "error"
    /\ Len(calls) = 2
    /\ LastCall.kind = "media"
    /\ calls[1].url # calls[2].url
    /\ res.status = 500
    /\ res.json
    /\ res.cors


\* A two-segment token whose payload parses, carries an identifier and has a
\* numeric exp not before now.
WellFormedUnexpired ==
    /\ TwoSegments
    /\ Claims.json = "object"
    /\ CarriesIdentifier
    /\ Claims.exp.t = "num" /\ now <= Claims.exp.n

\* C20: a well-formed, unexpired token is answered 500 when neither the signing
\* secret nor the provider auth token is configured; a token that verified is
\* answered 500 when the provider account identifier is missing or neither
\* credential pair is configured; no outbound call is made in either case; and
\* with the signing secret unset the provider auth token is the verification key.
C20_UnconfiguredIs500 ==
    /\ (WellFormedUnexpired /\ env.secret = "" /\ env.authToken = "") =>
          (res.status = 500 /\ res.error = "Server not configured" /\ calls = <<>>)
    /\ (TokenValid /\ SecretOf(env) # ""
        /\ (env.accountSid = "" \/ (env.authToken = "" /\ env.apiKey = ""))) =>
          (res.status = 500 /\ res.error = "Twilio credentials not configured"
           /\ calls = <<>>)
    /\ (WellFormedUnexpired /\ env.secret = "" /\ env.authToken # "") =>
          (res.error = "Invalid signature"
              <=> req.token[2] # Sign(env.authToken, req.token[1]))

\* A token signed with the provider auth token verified while no signing secret
\* is set, and was answered 500 because the account identifier is missing.
C20_Witness ==
    /\ env.secret = "" /\ env.authToken = "tok"
    /\ env.accountSid = ""
    /\ WellFormedUnexpired
    /\ req.token[2] = Sign("tok", req.token[1])
    /\ pc = "done"
    /\ res.status = 500
    /\ res.error = "Twilio credentials not configured"
    /\ calls = <<>>


----------------------------------------------------------------------------
(* Properties of the mirrored headers *)

\* The client was answered with a winning upstream response.
Succeeded == res.from # 0

WinningUrl == calls[res.from].url

\* C21: on every successful response the client Content-Type is the upstream
\* content-type when the upstream sent one, otherwise audio/wav for a winning
\* candidate ending in .wav and audio/mpeg for any other; Accept-Ranges: bytes,
\* Cache-Control: no-store and an inline Content-Disposition are always set.
C21_MirroredHeaders ==
    Succeeded =>
        /\ r.contentType # "" => res.contentType = r.contentType
        /\ (r.contentType = "" /\ WinningUrl[Len(WinningUrl)] = ".wav") =>
              res.contentType = "audio/wav"
        /\ (r.contentType = "" /\ WinningUrl[Len(WinningUrl)] # ".wav") =>
              res.contentType = "audio/mpeg"
        /\ res.acceptRanges = "bytes"
        /\ res.cacheControl = "no-store"
        /\ res.disposition = "inline; filename=recording"

\* The .wav candidate won with a response that carries no content-type.
C21_Witness ==
    /\ Succeeded
    /\ r.contentType = ""
    /\ WinningUrl[Len(WinningUrl)] = ".wav"
    /\ res.contentType = "audio/wav"
    /\ res.status = 200


----------------------------------------------------------------------------
(* Properties of the order of the outbound calls *)

\* Rank of a kind of outbound call in the order of the strategies.
KindRank(kind) ==
    CASE kind = "login" -> 1
      [] kind = "getCall" -> 2
      [] kind = "list" -> 3
      [] OTHER -> 4

\* A call is issued only by a step in which no call was in flight or the one
\* in flight settles, and one call at a time.
C23_OneAtATime ==
    Len(calls') # Len(calls) =>
        /\ Len(calls') = Len(calls) + 1
        /\ inflight = 0 \/ Settles
        /\ inflight' = Len(calls')

\* The calls were issued in the order of the strategies, and the media
\* attempts in the order of the candidates, the secondary credential after
\* the primary one on the same candidate.
C23_InOrder ==
    \A n \in 1 .. Len(calls) - 1 :
        /\ KindRank(calls[n].kind) <= KindRank(calls[n + 1].kind)
        /\ (calls[n].kind = "media") =>
              \/ /\ calls[n + 1].url = calls[n].url
                 /\ calls[n].auth = primaryAuth(env)
                 /\ calls[n + 1].auth = keyBasic(env)
                 /\ calls[n].auth # calls[n + 1].auth
              \/ \E i \in 1 .. Len(candidates) - 1 :
                    /\ calls[n].url = candidates[i]
                    /\ calls[n + 1].url = candidates[i + 1]
                    /\ calls[n + 1].auth = primaryAuth(env)

\* C23: within one request at most one outbound call is in flight at any time:
\* the strategies run in priority order and each media attempt starts only
\* after the previous attempt, on the previous candidate or with the previous
\* credential, has returned.
C23_Sequential == [][C23_OneAtATime /\ C23_InOrder']_vars

\* Three media attempts were made one after the other: both credentials on
\* the first candidate, then the second candidate, which is in flight alone.
C23_Witness ==
    /\ Len(calls) = 3
    /\ \A n \in 1 .. 3 : calls[n].kind = "media"
    /\ calls[1].url = calls[2].url
    /\ calls[3].url = candidates[2]
    /\ inflight = 3
    /\ pc = "fetchPrimary"

\* C24: every upstream response obtained during a request, the failed
\* attempts' and a HEAD winner's included, has its body drained or cancelled
\* by the time the handler has finished the request.
C24_BodiesClosed ==
    (pc = "done" /\ r.body) => upstream \in {"ended", "errored"}

\* The step in which the upstream body fails after streaming has started.
C25_Case == pc = "streaming" /\ upstream' = "errored"

\* C25: when the upstream body stream fails with a read error after streaming
\* has started, the client response is ended, the handler is done without an
\* exception, and no second status line and no JSON error body is written.
C25_StreamErrorEnds ==
    [][C25_Case =>
        /\ pc' = "done"
        /\ res'.ended
        /\ res'.status = res.status
        /\ res'.contentType = res.contentType
        /\ res'.error = "" /\ ~res'.json
        /\ res'.body = res.body]_vars

\* The body failed after one chunk had been piped, and the response is ended.
C25_Witness ==
    /\ upstream = "errored"
    /\ pc = "done"
    /\ res.ended
    /\ res.status = 200
    /\ Len(res.body) = 1
    /\ ~res.json


----------------------------------------------------------------------------
(* Properties of the record-store lookup *)

\* The request reached the record-store lookup of line 160: its token passed
\* validation, the provider credentials are configured, and the token names a
\* call and no recording.
LookupReached ==
    /\ Received
    /\ Validate(req.token, env, now).status = 0
    /\ ~CredentialsMissing(env)
    /\ Claims.recordingSid = Absent
    /\ Claims.callId # Absent

\* The lookup is over and gave no record.
LookupFailed == LookupReached /\ pc \notin {"login", "getCall"} /\ ~call.found

\* C30: every failure of the record-store lookup (credentials unconfigured,
\* login rejected or without a token, an error status on the record fetch, a
\* network error) ends the request with 404 Call not found, as an absent
\* record does, with no provider list query and no media fetch, never 500.
C30_LookupFailureIs404 ==
    /\ LookupFailed =>
          /\ pc = "done"
          /\ res.status = 404 /\ res.error = "Call not found"
          /\ ~Issued("list") /\ ~Issued("media")
    /\ (LookupReached /\ ~env.base44) => calls = <<>>

\* The login fetch failed with a network error for a token that also names a
\* provider call, and the request ended 404 with no further call.
C30_Witness ==
    /\ LookupFailed
    /\ Claims.twilioCallSid # Absent
    /\ Len(calls) = 1
    /\ calls[1].kind = "login"
    /\ settled = "error"
    /\ res.status = 404


----------------------------------------------------------------------------
(* The record-store sessions across requests: POST /call-status             *)
(* (twilioCallStatus.ts lines 112-187), POST /recording-status              *)
(* (twilioRecordingStatus.ts lines 88-170) and the resolver's lookup        *)
(* (base44LoginAndGetCall).  Requests overlap at their awaits.              *)

\* twilioCallStatus.ts line 73, twilioRecordingStatus.ts line 29
LOGIN_TTL_MS == 50 * 60 * 1000

\* The clock advances by half a TTL at a time.
TickMs == LOGIN_TTL_MS \div 2

WebhookRoutes == {"callStatus", "recordingStatus"}

\* creds: the record-store credentials are set (BASE44_ADMIN_EMAIL and
\* BASE44_ADMIN_PASSWORD; with BASE44_APP_ID for the resolver);
\* skipSig: TWILIO_SKIP_SIGNATURE_VALIDATION is "true" or "1".
HookEnvs == [creds : BOOLEAN, skipSig : BOOLEAN]

\* What a webhook request carries: a call_record_id or none, a signature that
\* twilio.validateRequest accepts or not, and parameters that give an empty
\* update payload, a non-empty one, or one completed by a provider API call.
\* Of the requests without call_record_id, which are dropped at once, one is
\* followed per route.
WebhookInputs ==
    {x \in [route : WebhookRoutes, hasId : BOOLEAN, sigOk : BOOLEAN,
            payload : {"empty", "fields", "needsProvider"}] :
        ~x.hasId => (~x.sigOk /\ x.payload = "fields")}

LookupInput == [route |-> "stream", hasId |-> TRUE, sigOk |-> TRUE, payload |-> "fields"]

\* A request as it arrives.  acks counts the 200 OK sent; nowAt is the local
\* now of ensureBase44Auth while its login is awaited; loggedIn, stored and asked say whether the request
\* has issued a login, a record-store call (Call.update, or the Call fetch of
\* the resolver) and a provider API call.
Arrived(input) ==
    [route |-> input.route, hasId |-> input.hasId, sigOk |-> input.sigOk,
     payload |-> input.payload, pc |-> "new", nowAt |-> 0, acks |-> 0,
     loggedIn |-> FALSE, stored |-> FALSE, asked |-> FALSE]

\* ensureBase44Auth up to its await, and the Call.update that follows when it
\* returns at once (twilioCallStatus.ts lines 75-85 and 176-180,
\* twilioRecordingStatus.ts lines 31-39 and 163-164); last is lastLoginAt
ensureBase44Auth(h, e, t, last) ==
    IF ~e.creds THEN [h EXCEPT !.pc = "done"]
    ELSE IF t - last < LOGIN_TTL_MS THEN [h EXCEPT !.pc = "update", !.stored = TRUE]
    ELSE [h EXCEPT !.pc = "login", !.nowAt = t, !.loggedIn = TRUE]

\* twilioCallStatus.ts lines 166-176, twilioRecordingStatus.ts lines 149-163
AfterPayload(h, e, t, last) ==
    IF h.payload = "empty" THEN [h EXCEPT !.pc = "done"]
    ELSE ensureBase44Auth(h, e, t, last)

WebhookEntryAcksLast(h, e, t, last) ==
    IF ~h.hasId THEN [h EXCEPT !.pc = "done"]
    ELSE IF ~e.skipSig /\ ~h.sigOk THEN [h EXCEPT !.pc = "done"]
    ELSE IF h.payload = "needsProvider"
        THEN [h EXCEPT !.acks = @ + 1, !.pc = "provider", !.asked = TRUE]
    ELSE AfterPayload([h EXCEPT !.acks = @ + 1], e, t, last)

\* twilioCallStatus.ts lines 112-164, twilioRecordingStatus.ts lines 88-147:
\* the acknowledgement, then the handler up to its first await or return
WebhookEntry(h, e, t, last) ==
    LET a == [h EXCEPT !.acks = @ + 1] IN
    IF ~a.hasId THEN [a EXCEPT !.pc = "done"]
    ELSE IF ~e.skipSig /\ ~a.sigOk THEN [a EXCEPT !.pc = "done"]
    ELSE IF a.payload = "needsProvider" THEN [a EXCEPT !.pc = "provider", !.asked = TRUE]
    ELSE AfterPayload(a, e, t, last)

\* base44LoginAndGetCall, streamCallRecording.ts lines 35-51: no session is
\* kept, the login fetch is issued on every call
LookupEntry(h, e, t) ==
    IF ~e.creds THEN [h EXCEPT !.pc = "done"]
    ELSE [h EXCEPT !.pc = "login", !.nowAt = t, !.loggedIn = TRUE]

Later(a, b) == IF a >= b THEN a ELSE b

HookInit ==
    /\ hookEnv \in HookEnvs
    /\ clock = LOGIN_TTL_MS
    /\ hooks = <<>>
    /\ lastLoginAt = [m \in WebhookRoutes |-> 0]
    /\ lastGood = [m \in WebhookRoutes \cup {"stream"} |-> 0]
    /\ env = [secret |-> "s1", authToken |-> "tok", accountSid |-> "AC1",
              apiKey |-> "", base44 |-> TRUE]
    /\ req = NoRequest
    /\ now = 0
    /\ pc = "idle"
    /\ res = NoRes
    /\ calls = <<>>
    /\ inflight = 0
    /\ r = NoResponse
    /\ call = NoRecord
    /\ candidates = <<>>
    /\ idx = 0
    /\ trail = {}
    /\ aborted = FALSE
    /\ settled = "none"
    /\ upstream = "none"
    /\ denied = 0

\* POST /call-status or POST /recording-status arrives.  The two modules
\* share no variable and no client, so the webhook requests followed together
\* are those of one module.
WebhookArrives ==
    /\ Len(hooks) < MaxRequests
    /\ \E input \in WebhookInputs :
        /\ \A j \in 1 .. Len(hooks) :
              hooks[j].route \in WebhookRoutes => hooks[j].route = input.route
        /\ hooks' = Append(hooks, WebhookEntry(Arrived(input), hookEnv, clock,
                                               lastLoginAt[input.route]))
    /\ UNCHANGED <<hookEnv, clock, lastLoginAt, lastGood>>
    /\ UNCHANGED vars

\* A stream request reaches the lookup of streamCallRecording.ts line 160
LookupArrives ==
    /\ Len(hooks) < MaxRequests
    /\ hooks' = Append(hooks, LookupEntry(Arrived(LookupInput), hookEnv, clock))
    /\ UNCHANGED <<hookEnv, clock, lastLoginAt, lastGood>>
    /\ UNCHANGED vars

\* twilioCallStatus.ts lines 163-176, twilioRecordingStatus.ts lines 145-163:
\* the provider API call returns, with a result or caught
ProviderSettles ==
    /\ \E i \in 1 .. Len(hooks) :
        /\ hooks[i].pc = "provider"
        /\ hooks' = [hooks EXCEPT ![i] = AfterPayload(@, hookEnv, clock,
                                                     lastLoginAt[@.route])]
    /\ UNCHANGED <<hookEnv, clock, lastLoginAt, lastGood>>
    /\ UNCHANGED vars

SessionLoginSettlesStampsAnyway ==
    /\ \E i \in 1 .. Len(hooks), ok \in BOOLEAN :
        /\ hooks[i].pc = "login"
        /\ hooks' = [hooks EXCEPT ![i] =
                        IF ~ok THEN [@ EXCEPT !.pc = "done", !.nowAt = 0]
                        ELSE IF @.route = "stream"
                            THEN [@ EXCEPT !.pc = "getCall", !.stored = TRUE, !.nowAt = 0]
                        ELSE [@ EXCEPT !.pc = "update", !.stored = TRUE, !.nowAt = 0]]
        /\ lastLoginAt' = IF hooks[i].route \in WebhookRoutes
              THEN [lastLoginAt EXCEPT ![hooks[i].route] = hooks[i].nowAt]
              ELSE lastLoginAt
        /\ lastGood' = IF ok
              THEN [lastGood EXCEPT ![hooks[i].route] = Later(@, hooks[i].nowAt)]
              ELSE lastGood
    /\ UNCHANGED <<hookEnv, clock>>
    /\ UNCHANGED vars

\* The login returns.  twilioCallStatus.ts lines 85-86 and 180,
\* twilioRecordingStatus.ts lines 39-40 and 164: lastLoginAt = now, then
\* Call.update; a login that throws is caught at line 184 (167).
\* streamCallRecording.ts lines 53-71: the Call fetch with the token, or a throw.
SessionLoginSettles ==
    /\ \E i \in 1 .. Len(hooks), ok \in BOOLEAN :
        /\ hooks[i].pc = "login"
        /\ hooks' = [hooks EXCEPT ![i] =
                        IF ~ok THEN [@ EXCEPT !.pc = "done", !.nowAt = 0]
                        ELSE IF @.route = "stream"
                            THEN [@ EXCEPT !.pc = "getCall", !.stored = TRUE, !.nowAt = 0]
                        ELSE [@ EXCEPT !.pc = "update", !.stored = TRUE, !.nowAt = 0]]
        /\ lastLoginAt' = IF ok /\ hooks[i].route \in WebhookRoutes
              THEN [lastLoginAt EXCEPT ![hooks[i].route] = hooks[i].nowAt]
              ELSE lastLoginAt
        /\ lastGood' = IF ok
              THEN [lastGood EXCEPT ![hooks[i].route] = Later(@, hooks[i].nowAt)]
              ELSE lastGood
    /\ UNCHANGED <<hookEnv, clock>>
    /\ UNCHANGED vars

\* Call.update (line 180, line 164) or the Call fetch (lines 65-79) returns
StoreSettles ==
    /\ \E i \in 1 .. Len(hooks) :
        /\ hooks[i].pc \in {"update", "getCall"}
        /\ hooks' = [hooks EXCEPT ![i].pc = "done"]
    /\ UNCHANGED <<hookEnv, clock, lastLoginAt, lastGood>>
    /\ UNCHANGED vars

\* Time passes
Tick ==
    /\ clock < LOGIN_TTL_MS + MaxTicks * TickMs
    /\ clock' = clock + TickMs
    /\ UNCHANGED <<hookEnv, hooks, lastLoginAt, lastGood>>
    /\ UNCHANGED vars

HookNext ==
    \/ WebhookArrives
    \/ LookupArrives
    \/ ProviderSettles
    \/ SessionLoginSettles
    \/ StoreSettles
    \/ Tick

HookSpec == HookInit /\ [][HookNext]_hookVars


----------------------------------------------------------------------------
(* Properties of the record-store sessions *)

\* Request i issues its login in this step.
IssuesLogin(i) == hooks'[i].pc = "login" /\ (i > Len(hooks) \/ hooks[i].pc # "login")

\* Request i issues its record-store call in this step.
IssuesStore(i) == hooks'[i].stored /\ (i > Len(hooks) \/ ~hooks[i].stored)

\* No login of the route has succeeded, or the latest one is a TTL old.
SessionStale(route) == lastGood[route] = 0 \/ clock - lastGood[route] >= LOGIN_TTL_MS

\* C22: the record-store session is cached across requests, for the resolver's
\* lookup as for the webhooks' updates: a login is performed only when no
\* session exists or the session is older than the TTL, and it has completed
\* before the record-store call is issued.
C22_LoginOnlyWhenStale ==
    [][\A i \in 1 .. Len(hooks') :
          /\ IssuesLogin(i) => SessionStale(hooks'[i].route)
          /\ IssuesStore(i) => lastGood'[hooks'[i].route] # 0]_hookVars

\* C27: under every interleaving of the requests that refresh a stale session,
\* lastLoginAt never decreases.
C27_LastLoginAtNeverDecreases ==
    [][\A m \in WebhookRoutes : lastLoginAt'[m] >= lastLoginAt[m]]_hookVars

\* Request i comes to ensureBase44Auth in this step, on arrival or when its
\* provider API call has returned.
ReachesAuth(i) ==
    /\ hooks'[i].pc \in {"login", "update"}
    /\ i > Len(hooks) \/ hooks[i].pc = "provider"

C28_Step ==
    /\ \A i \in 1 .. Len(hooks) :
          (hooks[i].pc = "login" /\ hooks'[i].pc = "done") =>
              (lastLoginAt' = lastLoginAt /\ ~hooks'[i].stored)
    /\ \A m \in WebhookRoutes :
          lastLoginAt'[m] # lastLoginAt[m] =>
              \E i \in 1 .. Len(hooks) :
                  /\ hooks[i].route = m /\ hooks[i].pc = "login"
                  /\ hooks'[i].pc = "update"
                  /\ lastLoginAt'[m] = hooks[i].nowAt
    /\ \A i \in 1 .. Len(hooks') :
          (ReachesAuth(i) /\ hooks'[i].route \in WebhookRoutes
           /\ clock - lastLoginAt[hooks'[i].route] >= LOGIN_TTL_MS) =>
              hooks'[i].pc = "login"

\* Without the admin credentials no request logs in or updates.
C28_NoCredentials ==
    ~hookEnv.creds =>
        /\ \A i \in 1 .. Len(hooks) : ~hooks[i].loggedIn /\ ~hooks[i].stored
        /\ \A m \in WebhookRoutes : lastLoginAt[m] = 0

\* C28: a login that fails, or missing admin credentials, leaves lastLoginAt
\* unchanged and the request's Call.update unissued, the next request that
\* comes to ensureBase44Auth logs in again, and lastLoginAt is advanced only
\* when a login has completed successfully.
C28_FailedLoginKeepsStale == [][C28_Step /\ C28_NoCredentials']_hookVars

\* A webhook's login failed, its update was not issued, and the next request
\* of the module is logging in again.
C28_Witness ==
    /\ Len(hooks) = 2
    /\ hooks[1].route = "callStatus" /\ hooks[2].route = "callStatus"
    /\ hooks[1].pc = "done" /\ hooks[1].loggedIn /\ ~hooks[1].stored
    /\ hooks[2].pc = "login"
    /\ lastLoginAt["callStatus"] = 0

\* The request fails the checks that precede the update: no call_record_id,
\* or a signature that does not validate while validation is not disabled.
Rejected(h) == ~h.hasId \/ (~hookEnv.skipSig /\ ~h.sigOk)

\* C29: a webhook request is acknowledged with 200 OK exactly once, before
\* validation and before any outbound call, whatever happens afterwards; a
\* request without call_record_id, or failing signature validation while it is
\* not disabled, causes no record-store login and no Call.update.
C29_AckOnceThenValidate ==
    \A i \in 1 .. Len(hooks) :
        hooks[i].route \in WebhookRoutes =>
            /\ hooks[i].acks = 1
            /\ Rejected(hooks[i]) =>
                  /\ hooks[i].pc = "done"
                  /\ ~hooks[i].asked /\ ~hooks[i].loggedIn /\ ~hooks[i].stored

\* A request was acknowledged and dropped for its signature while another,
\* acknowledged too, awaits its login.
C29_Witness ==
    /\ Len(hooks) = 2
    /\ hooks[1].route = "recordingStatus" /\ hooks[2].route = "recordingStatus"
    /\ hooks[1].hasId /\ ~hooks[1].sigOk /\ ~hookEnv.skipSig
    /\ hooks[1].pc = "done" /\ hooks[1].acks = 1
    /\ hooks[2].pc = "login" /\ hooks[2].acks = 1


----------------------------------------------------------------------------
(* Properties of the piped body *)

\* C26: for a GET that reaches streaming, the chunks written to the client
\* are at every moment a prefix of the winning upstream body, in order and
\* without duplication, and when the upstream body ends normally the client
\* response is ended with the whole body written.
C26_PipedPrefix ==
    (Succeeded /\ ~req.isHead) =>
        /\ Len(res.body) <= r.chunks
        /\ \A k \in 1 .. Len(res.body) : res.body[k] = [from |-> res.from, n |-> k]
        /\ upstream = "ended" => (res.ended /\ Len(res.body) = r.chunks)

\* The longest body was piped whole and the response ended.
C26_Witness ==
    /\ Succeeded /\ ~req.isHead
    /\ upstream = "ended"
    /\ r.chunks = MaxChunks
    /\ Len(res.body) = MaxChunks
    /\ res.ended

----------------------------------------------------------------------------
(* Properties of the token's own list query, of the terminal outcome and   *)
(* of the order of the checks (stream handler, specification Spec)          *)

\* The n-th outbound call is the list query keyed by the call SID of the token.
TokenListAt(n) ==
    /\ calls[n].kind = "list"
    /\ Claims.twilioCallSid # Absent
    /\ calls[n].url = ListUrl(env.accountSid, Claims.twilioCallSid)

LastIsTokenList == calls # <<>> /\ TokenListAt(Len(calls))

ListQueries == {n \in DOMAIN calls : calls[n].kind = "list"}

\* The token names neither a call nor a recording, only a provider call SID.
OnlyProviderCallSid ==
    /\ Received /\ Len(req.token) >= 1
    /\ Claims.twilioCallSid # Absent
    /\ Claims.callId = Absent /\ Claims.recordingSid = Absent

\* The step issues the token's list query: no candidate exists at that moment,
\* and the handler comes from the record lookup or from the record's list query.
C31_Step ==
    (Len(calls') > Len(calls) /\ LastIsTokenList')
    => /\ candidates' = <<>>
       /\ pc \in {"getCall", "listRecord"}
       /\ pc = "getCall" => call'.twilio_call_sid = Absent

C31_Always ==
    /\ OnlyProviderCallSid => (res.status = 400 /\ calls = <<>>)
    /\ Cardinality(ListQueries) <= 2
    /\ \A n \in DOMAIN calls :
          TokenListAt(n) =>
              /\ Claims.callId # Absent
              /\ call.found
              /\ RecordCandidates(env.accountSid, call) = <<>>
              /\ \A m \in 1 .. n - 1 : calls[m].kind # "media"
              /\ \A m \in ListQueries : m < n =>
                    calls[m].url = ListUrl(env.accountSid, call.twilio_call_sid)

\* C31: the list query keyed by the token's own provider call SID is issued
\* only when the token also carries a call identifier, the call record was
\* found, and every record-derived strategy (recording identifier, media URL,
\* the record's own list query) gave no candidate; a token carrying only a
\* provider call SID is answered 400 before any outbound call; and one request
\* issues at most two list queries.
C31_TokenListQueryLast == [][C31_Step /\ C31_Always']_vars

\* The record's list query came back empty and the token's list query followed.
C31_Witness ==
    /\ \E n \in DOMAIN calls :
          TokenListAt(n) /\ \E m \in ListQueries : m < n
    /\ Cardinality(ListQueries) = 2
    /\ settled = "response"


\* The status line and the headers of the client response.
StatusAndHeaders(rs) ==
    <<rs.status, rs.error, rs.cors, rs.contentType, rs.contentRange, rs.contentLength,
      rs.acceptRanges, rs.cacheControl, rs.disposition, rs.from>>

Responded == res.status # 0

\* Once a response is written, a step leaves its status and headers as they
\* are and issues no outbound call.
C32_Step == Responded => (StatusAndHeaders(res') = StatusAndHeaders(res) /\ calls' = calls)

C32_Always ==
    /\ Responded =>
          /\ pc \in {"done", "streaming"}
          /\ inflight = 0
          /\ \/ res.from = 0 /\ res.status \in {400, 401, 404, 500, 502}
             \/ res.from # 0 /\ calls[res.from].kind = "media"
                /\ res.status = r.status /\ Ok(r)
    /\ pc = "done" => Responded
    /\ pc = "streaming" => res.from # 0

\* C32: every GET or HEAD request ends in exactly one terminal outcome, 400,
\* 401, 404, 500, 502 or the status of the winning upstream answer: the status
\* and headers are written once, and once a response is written the handler
\* issues no further outbound call and writes no further response.
C32_OneTerminalOutcome == [][C32_Step /\ C32_Always']_vars

\* A request that needed the record lookup, a list query and two media fetches
\* has ended with the status of the second fetch.
C32_Witness ==
    /\ pc = "done" /\ res.ended
    /\ Issued("login") /\ Issued("list")
    /\ Len(calls) = 5
    /\ res.from = 5
    /\ res.status = 206
    /\ upstream = "ended"


\* The checks of lines 100-146 in the order the claim lists them.
CheckOrder ==
    <<"token", "segments", "parse", "ids", "exp", "secret", "hmac", "creds">>

\* Whether the received request fails the named check, each taken on its own;
\* a token with no payload segment has nothing to parse, no identifier and no
\* expiry, and one with no signature segment has no matching signature.
Fails(check) ==
    CASE check = "token" -> req.token = <<>>
      [] check = "segments" -> Len(req.token) # 2
      [] check = "parse" -> req.token = <<>> \/ Claims.json = "garbage"
      [] check = "ids" ->
            req.token = <<>> \/ (Claims.callId = Absent /\ Claims.recordingSid = Absent)
      [] check = "exp" -> req.token = <<>> \/ ExpiredAt(Claims.exp, now)
      [] check = "secret" -> SecretOf(env) = ""
      [] check = "hmac" ->
            Len(req.token) < 2 \/ ~hmacVerify(SecretOf(env), req.token[1], req.token[2])
      [] check = "creds" -> CredentialsMissing(env)

FailedChecks == {n \in DOMAIN CheckOrder : Fails(CheckOrder[n])}

FirstFailed == CheckOrder[CHOOSE n \in FailedChecks : \A m \in FailedChecks : n <= m]

StatusOf(check) ==
    CASE check \in {"token", "segments", "parse", "ids"} -> 400
      [] check \in {"exp", "hmac"} -> 401
      [] check \in {"secret", "creds"} -> 500

ErrorOf(check) ==
    CASE check = "token" -> "Missing token"
      [] check = "segments" -> "Invalid token"
      [] check = "parse" -> "Invalid token payload"
      [] check = "ids" -> "Invalid token data"
      [] check = "exp" -> "Token expired"
      [] check = "secret" -> "Server not configured"
      [] check = "hmac" -> "Invalid signature"
      [] check = "creds" -> "Twilio credentials not configured"

\* The token is well formed: two segments, a payload that parses and names a
\* resource.
WellFormed == \A c \in {"token", "segments", "parse", "ids"} : ~Fails(c)

C33_Examples ==
    /\ (WellFormed /\ Fails("exp") /\ Fails("secret")) =>
          (res.status = 401 /\ res.error = "Token expired")
    /\ (WellFormed /\ ~Fails("exp") /\ Fails("hmac") /\ Fails("secret")) =>
          (res.status = 500 /\ res.error = "Server not configured")
    /\ (WellFormed /\ ~Fails("exp") /\ ~Fails("secret") /\ Fails("hmac") /\ Fails("creds")) =>
          (res.status = 401 /\ res.error = "Invalid signature")

\* C33: a request that fails several checks at once is answered by the first
\* failing check in the order token absent (400), segment count (400), payload
\* parse (400), no resource identifier (400), expiry (401), signing secret
\* unconfigured (500), signature mismatch (401), provider account or
\* credentials unconfigured (500), and no outbound call is made.  So an expired
\* token gets 401 when no secret is configured, an unexpired forged token gets
\* 500 when no secret is configured, and a forged token gets 401 when the
\* upstream credentials are unconfigured.
C33_FirstFailingCheckAnswers ==
    (Received /\ FailedChecks # {}) =>
        /\ pc = "done"
        /\ calls = <<>>
        /\ res.status = StatusOf(FirstFailed)
        /\ res.error = ErrorOf(FirstFailed)
        /\ C33_Examples

\* An unexpired token signed with a foreign secret, received by a server with
\* a signing secret and no provider account, is answered 401 Invalid signature.
C33_Witness ==
    /\ Received /\ WellFormed
    /\ ~Fails("exp") /\ ~Fails("secret")
    /\ Fails("hmac") /\ Fails("creds")
    /\ env.accountSid = ""
    /\ res.status = 401 /\ res.error = "Invalid signature"

====
